---- MODULE Spec2Model ----
(***************************************************************************)
(* Model of automation_analysis_app.py: the per-row metric derivation, the *)
(* suggest_action cascade, the business-unit summary and the greedy        *)
(* similar-name grouping loop.                                             *)
(*                                                                         *)
(* Conventions.                                                            *)
(*  - A nullable cell (NaT, NaN, pd.NA) is a set with at most one element: *)
(*    {} is the missing value and {v} the value v.                         *)
(*  - Timestamps are integers counted in half days, so that the floor of   *)
(*    Timedelta.days is visible; one day is two ticks.                     *)
(*  - A rate is the exact fraction <<numerator, denominator>>; comparisons *)
(*    with 0.5 are done by cross multiplication.                           *)
(*  - The en dash of the labels is written as an ASCII hyphen.             *)
(***************************************************************************)
EXTENDS Integers, Sequences, FiniteSets

VARIABLES pc, row, SuggestedAction, SuggestedAgain,
          column, names, idx, seen, similar_groups, seeds,
          loaded, df, bu_filter, bu_summary

vars == <<pc, row, SuggestedAction, SuggestedAgain,
          column, names, idx, seen, similar_groups, seeds,
          loaded, df, bu_filter, bu_summary>>

rowVars == <<row, SuggestedAction, SuggestedAgain>>
clusterVars == <<column, names, idx, seen, similar_groups, seeds>>
aggVars == <<loaded, df, bu_filter, bu_summary>>

----------------------------------------------------------------------------
(* Nullable cells *)

NA == {}

Val(x) == CHOOSE v \in x : TRUE

isna(x) == x = NA

----------------------------------------------------------------------------
(* Bounds of the explored inputs *)

\* run counts 0..MaxSmallCount are explored next to the counts around the
\* thresholds of the cascade
MaxSmallCount == 2

\* largest amount by which a numerator count exceeds the run count
MaxExcess == 1

----------------------------------------------------------------------------
(* The reference time and the input rows *)

\* pd.Timestamp.now(), in ticks
now == 1000

\* pd.Timedelta(days=d), in ticks
Timedelta(d) == 2 * d

\* Timedelta.days: whole days, rounded towards minus infinity
days(delta) == delta \div 2

\* now - LastRunTime, in ticks: both sides of every cut point of the age
\* bins, a run in the future, and a run 200 days ago
RunOffsets ==
    {-3, -2, -1, 0, 1, 60, 61, 62, 180, 181, 182, 360, 361, 362, 400,
     730, 731, 732}

\* now - CreatedDate, in ticks: today, exactly 90 days, 90 days and a half,
\* 200 days
CreatedOffsets == {0, 180, 181, 400}

Frequencies == {"Every Hour, Mon-Fri", "Daily, 06:00"}

RunCounts == (0 .. MaxSmallCount) \cup {10, 11, 12, 4166, 4167}

\* numerator counts tried against a run count: none, just under and just
\* over one half, all runs, and more than the run count
Numerators(run) ==
    {0, run \div 2, (run \div 2) + 1, run} \cup {run + e : e \in 1 .. MaxExcess}

\* a row as read by load_data; the derived columns are filled in later
InputRow(c, l, f, r, e, s, k) ==
    [CreatedDate |-> c, LastRunTime |-> l, ScheduledFrequency |-> f,
     RunCount |-> r, ErrorCount |-> e, SkipCount |-> s, CompletionCount |-> k,
     LastRunAgeDays |-> NA, IsActive |-> FALSE, HasNeverRun |-> FALSE,
     AutomationAgeGroup |-> NA, ErrorRate |-> NA, SkipRate |-> NA,
     EfficiencyScore |-> NA, AnnualizedRunCount |-> 0]

NoRow == InputRow(NA, NA, NA, 0, 0, 0, 0)

----------------------------------------------------------------------------
(* Metrics: lines 27-40 *)

\* (now - df['LastRunTime']).dt.days: NaN for NaT
LastRunAgeDays(r) ==
    IF isna(r.LastRunTime) THEN NA
    ELSE {days(now - Val(r.LastRunTime))}

\* df['LastRunAgeDays'] <= 30: a comparison with NaN is False
IsActive(r) ==
    /\ ~isna(LastRunAgeDays(r))
    /\ Val(LastRunAgeDays(r)) <= 30

HasNeverRun(r) == isna(r.LastRunTime)

\* pd.cut(x, bins=[-1, 30, 90, 180, 365, inf], labels=...): right-closed
\* intervals (-1,30], (30,90], (90,180], (180,365], (365,inf); a value in no
\* interval, like NaN, gets NaN
cut(x) ==
    IF isna(x) THEN NA
    ELSE IF Val(x) <= -1 THEN NA
    ELSE IF Val(x) <= 30 THEN {"<1 mo"}
    ELSE IF Val(x) <= 90 THEN {"1-3 mo"}
    ELSE IF Val(x) <= 180 THEN {"3-6 mo"}
    ELSE IF Val(x) <= 365 THEN {"6-12 mo"}
    ELSE {">1 yr"}

AutomationAgeGroup(r) == cut(LastRunAgeDays(r))

\* count / df['30DayRunCount'].replace(0, pd.NA): pd.NA where the run count
\* is 0, the quotient elsewhere
GuardedDivide_NoReplace(count, run) == {<<count, run>>}

GuardedDivide(count, run) ==
    IF run = 0 THEN NA ELSE {<<count, run>>}

ErrorRate(r) == GuardedDivide(r.ErrorCount, r.RunCount)

SkipRate(r) == GuardedDivide(r.SkipCount, r.RunCount)

EfficiencyScore(r) == GuardedDivide(r.CompletionCount, r.RunCount)

AnnualizedRunCount(r) == r.RunCount * 12

\* the columns added to a row by lines 28-40
Enrich(r) ==
    [r EXCEPT !.LastRunAgeDays = LastRunAgeDays(r),
              !.IsActive = IsActive(r),
              !.HasNeverRun = HasNeverRun(r),
              !.AutomationAgeGroup = AutomationAgeGroup(r),
              !.ErrorRate = ErrorRate(r),
              !.SkipRate = SkipRate(r),
              !.EfficiencyScore = EfficiencyScore(r),
              !.AnnualizedRunCount = AnnualizedRunCount(r)]

\* comparisons of a rate with one half, and its truth value
num(rate) == Val(rate)[1]
den(rate) == Val(rate)[2]
AboveHalf(rate) == 2 * num(rate) > den(rate)
BelowHalf(rate) == 2 * num(rate) < den(rate)
Truthy(rate) == num(rate) # 0

----------------------------------------------------------------------------
(* suggest_action: lines 42-60 *)

Labels ==
    {"Created But Never Run", "Stale - Consider Archiving", "No Run History",
     "Inactive", "Error-Prone", "Review High Frequency", "Inefficient",
     "Excessive Annual Volume", "Keep"}

\* bool(pd.NA) raises TypeError: the outcome of suggest_action when the
\* truth value of a missing rate is taken
TypeError == "TypeError"

\* 'every hour' in str(x).lower(); str(nan) is 'nan'
lower(s) ==
    CASE s = "Every Hour, Mon-Fri" -> "every hour, mon-fri"
      [] s = "Daily, 06:00" -> "daily, 06:00"
      [] OTHER -> s

ContainsEveryHour(f) ==
    /\ ~isna(f)
    /\ lower(Val(f)) \in {"every hour, mon-fri"}

\* lines 55-60, reached when none of lines 43-54 returned
suggest_tail(r) ==
    IF isna(r.EfficiencyScore) THEN TypeError
    ELSE IF Truthy(r.EfficiencyScore) /\ BelowHalf(r.EfficiencyScore)
            /\ r.RunCount > 10
    THEN "Inefficient"
    ELSE IF r.AnnualizedRunCount > 50000 THEN "Excessive Annual Volume"
    ELSE "Keep"

\* the cascade with the test of line 51 placed before the test of line 49
suggest_action_RateBeforeInactive(r) ==
    IF r.HasNeverRun /\ ~isna(r.CreatedDate)
       /\ Val(r.CreatedDate) < now - Timedelta(90)
    THEN "Created But Never Run"
    ELSE IF ~isna(r.LastRunAgeDays) /\ Val(r.LastRunAgeDays) > 180
    THEN "Stale - Consider Archiving"
    ELSE IF isna(r.LastRunTime) THEN "No Run History"
    ELSE IF isna(r.ErrorRate) THEN TypeError
    ELSE IF Truthy(r.ErrorRate) /\ AboveHalf(r.ErrorRate) THEN "Error-Prone"
    ELSE IF r.RunCount = 0 THEN "Inactive"
    ELSE IF r.IsActive /\ ContainsEveryHour(r.ScheduledFrequency)
    THEN "Review High Frequency"
    ELSE suggest_tail(r)

\* the cascade with line 47 placed first
suggest_action_HistoryFirst(r) ==
    IF isna(r.LastRunTime) THEN "No Run History"
    ELSE IF ~isna(r.LastRunAgeDays) /\ Val(r.LastRunAgeDays) > 180
    THEN "Stale - Consider Archiving"
    ELSE IF r.RunCount = 0 THEN "Inactive"
    ELSE IF isna(r.ErrorRate) THEN TypeError
    ELSE IF Truthy(r.ErrorRate) /\ AboveHalf(r.ErrorRate) THEN "Error-Prone"
    ELSE IF r.IsActive /\ ContainsEveryHour(r.ScheduledFrequency)
    THEN "Review High Frequency"
    ELSE suggest_tail(r)

\* the cascade with line 49 placed before line 45
suggest_action_InactiveBeforeStale(r) ==
    IF r.HasNeverRun /\ ~isna(r.CreatedDate)
       /\ Val(r.CreatedDate) < now - Timedelta(90)
    THEN "Created But Never Run"
    ELSE IF r.RunCount = 0 /\ ~isna(r.LastRunTime) THEN "Inactive"
    ELSE IF ~isna(r.LastRunAgeDays) /\ Val(r.LastRunAgeDays) > 180
    THEN "Stale - Consider Archiving"
    ELSE IF isna(r.LastRunTime) THEN "No Run History"
    ELSE IF isna(r.ErrorRate) THEN TypeError
    ELSE IF Truthy(r.ErrorRate) /\ AboveHalf(r.ErrorRate) THEN "Error-Prone"
    ELSE IF r.IsActive /\ ContainsEveryHour(r.ScheduledFrequency)
    THEN "Review High Frequency"
    ELSE suggest_tail(r)

\* if / elif chain of lines 43-60.  A comparison with NaT or NaN is False;
\* `rate and rate > 0.5` takes the truth value of the rate first, which
\* raises for pd.NA and is False for 0.
suggest_action(r) ==
    IF r.HasNeverRun /\ ~isna(r.CreatedDate)
       /\ Val(r.CreatedDate) < now - Timedelta(90)
    THEN "Created But Never Run"
    ELSE IF ~isna(r.LastRunAgeDays) /\ Val(r.LastRunAgeDays) > 180
    THEN "Stale - Consider Archiving"
    ELSE IF isna(r.LastRunTime) THEN "No Run History"
    ELSE IF r.RunCount = 0 THEN "Inactive"
    ELSE IF isna(r.ErrorRate) THEN TypeError
    ELSE IF Truthy(r.ErrorRate) /\ AboveHalf(r.ErrorRate) THEN "Error-Prone"
    ELSE IF r.IsActive /\ ContainsEveryHour(r.ScheduledFrequency)
    THEN "Review High Frequency"
    ELSE suggest_tail(r)

----------------------------------------------------------------------------
(* One row through the script: read, lines 28-40, line 62, and line 62 once
   more on the unchanged row *)

InitRow ==
    /\ pc = "loaded"
    /\ \E c \in {NA} \cup {{now - o} : o \in CreatedOffsets},
          l \in {NA} \cup {{now - o} : o \in RunOffsets},
          f \in {NA} \cup {{x} : x \in Frequencies},
          r \in RunCounts :
         \E e \in Numerators(r), k \in Numerators(r),
            s \in {0, r + MaxExcess} :
            row = InputRow(c, l, f, r, e, s, k)
    /\ SuggestedAction = NA
    /\ SuggestedAgain = NA
    \* the parts of the script not followed here stay idle
    /\ column = <<>>
    /\ names = <<>>
    /\ idx = 0
    /\ seen = {}
    /\ similar_groups = <<>>
    /\ seeds = <<>>
    /\ loaded = <<>>
    /\ df = <<>>
    /\ bu_filter = {}
    /\ bu_summary = <<>>

DeriveMetrics ==
    /\ pc = "loaded"
    /\ row' = Enrich(row)
    /\ pc' = "derived"
    /\ UNCHANGED <<SuggestedAction, SuggestedAgain, clusterVars, aggVars>>

ApplySuggestAction ==
    /\ pc = "derived"
    /\ SuggestedAction' = {suggest_action(row)}
    /\ pc' = IF suggest_action(row) = TypeError THEN "raised" ELSE "classified"
    /\ UNCHANGED <<row, SuggestedAgain, clusterVars, aggVars>>

ApplyAgain ==
    /\ pc = "classified"
    /\ SuggestedAgain' = {suggest_action(row)}
    /\ pc' = "reclassified"
    /\ UNCHANGED <<row, SuggestedAction, clusterVars, aggVars>>

NextRow == DeriveMetrics \/ ApplySuggestAction \/ ApplyAgain

----------------------------------------------------------------------------
(* Claims about one row *)

Classified == pc \in {"classified", "reclassified"}

Action == Val(SuggestedAction)

\* the predicates of the cascade as the specification words them
Rule1 ==
    /\ isna(row.LastRunTime)
    /\ ~isna(row.CreatedDate)
    /\ now - Val(row.CreatedDate) > Timedelta(90)
Rule2 == ~isna(row.LastRunAgeDays) /\ Val(row.LastRunAgeDays) > 180
Rule3 == isna(row.LastRunTime)
Rule4 == row.RunCount = 0
Rule5 == ~isna(row.ErrorRate) /\ AboveHalf(row.ErrorRate)
Rule6 == row.IsActive /\ ContainsEveryHour(row.ScheduledFrequency)

\* C1: suggest_action never raises and returns one of the 9 labels, also
\* for rows whose CreatedDate, LastRunTime, ScheduledFrequency are missing,
\* and a second application to the unchanged row returns the same label.
C1_TotalAndDeterministic ==
    /\ pc # "raised"
    /\ Classified => SuggestedAction \subseteq Labels /\ ~isna(SuggestedAction)
    /\ pc = "reclassified" => SuggestedAgain = SuggestedAction

C1_Witness ==
    /\ pc = "reclassified"
    /\ isna(row.CreatedDate)
    /\ isna(row.ScheduledFrequency)
    /\ ~isna(row.LastRunTime)
    /\ row.RunCount = 0
    /\ isna(row.ErrorRate)
    /\ Action = "Inactive"
    /\ SuggestedAgain = {"Inactive"}

\* C2: a row with LastRunTime missing and CreatedDate more than 90 days
\* before now is labelled "Created But Never Run", whatever its counts,
\* rates and frequency.
C2_NeverRunWins ==
    (Classified /\ isna(row.LastRunTime) /\ ~isna(row.CreatedDate)
        /\ now - Val(row.CreatedDate) > Timedelta(90))
    => Action = "Created But Never Run"

C2_Witness ==
    /\ Classified
    /\ isna(row.LastRunTime)
    /\ row.CreatedDate = {now - Timedelta(90) - 1}
    /\ row.RunCount = 4167
    /\ ContainsEveryHour(row.ScheduledFrequency)
    /\ Action = "Created But Never Run"

\* C3: a row with LastRunTime present and LastRunAgeDays > 180 is labelled
\* "Stale - Consider Archiving", whatever its counts, rates and frequency; a
\* row whose LastRunAgeDays is exactly 180 is not.
C3_StaleWins ==
    (Classified /\ ~isna(row.LastRunTime))
    => /\ Val(row.LastRunAgeDays) > 180
            => Action = "Stale - Consider Archiving"
       /\ Val(row.LastRunAgeDays) = 180
            => Action # "Stale - Consider Archiving"

C3_Witness ==
    /\ Classified
    /\ row.LastRunAgeDays = {181}
    /\ row.RunCount = 0
    /\ Action = "Stale - Consider Archiving"

\* C4: a row matching none of rules 1-6 whose EfficiencyScore is defined
\* and below 0.5, with more than 10 runs, is labelled "Inefficient".
C4_Inefficient ==
    (Classified /\ ~Rule1 /\ ~Rule2 /\ ~Rule3 /\ ~Rule4 /\ ~Rule5 /\ ~Rule6
        /\ ~isna(row.EfficiencyScore) /\ BelowHalf(row.EfficiencyScore)
        /\ row.RunCount > 10)
    => Action = "Inefficient"

RateColumns ==
    {<<row.ErrorRate, row.ErrorCount>>, <<row.SkipRate, row.SkipCount>>,
     <<row.EfficiencyScore, row.CompletionCount>>}

ClaimedGroup(d) ==
    IF d <= 30 THEN "<1 mo"
    ELSE IF d <= 90 THEN "1-3 mo"
    ELSE IF d <= 180 THEN "3-6 mo"
    ELSE IF d <= 365 THEN "6-12 mo"
    ELSE ">1 yr"

\* C6: AutomationAgeGroup is missing exactly when LastRunAgeDays is, and is
\* otherwise "<1 mo" for d <= 30 (no lower limit), "1-3 mo" for 30 < d <= 90,
\* "3-6 mo" for 90 < d <= 180, "6-12 mo" for 180 < d <= 365, ">1 yr" above.
C6_AgeGroupBins ==
    pc # "loaded" =>
        /\ isna(row.AutomationAgeGroup) <=> isna(row.LastRunAgeDays)
        /\ ~isna(row.LastRunAgeDays) =>
             row.AutomationAgeGroup = {ClaimedGroup(Val(row.LastRunAgeDays))}

----------------------------------------------------------------------------
(* string_similarity: lines 134-135, difflib.SequenceMatcher(None, a, b).ratio() *)

\* Names are sequences of characters.  Positions are Python's: a[i] of the
\* source is a[i + 1] here, and slices lo:hi are half open.

\* a[i:i+k] == b[j:j+k]
SameBlock(a, b, i, j, k) ==
    \A d \in 0 .. (k - 1) : a[i + d + 1] = b[j + d + 1]

\* the non-empty common blocks of a[alo:ahi] and b[blo:bhi]
Blocks(a, b, alo, ahi, blo, bhi) ==
    { t \in (alo .. (ahi - 1)) \X (blo .. (bhi - 1)) \X (1 .. (ahi - alo)) :
        /\ t[1] + t[3] <= ahi
        /\ t[2] + t[3] <= bhi
        /\ SameBlock(a, b, t[1], t[2], t[3]) }

\* SequenceMatcher.find_longest_match without junk: the longest block, of
\* those the one starting earliest in a, of those the one starting earliest
\* in b; (alo, blo, 0) when there is none
find_longest_match(a, b, alo, ahi, blo, bhi) ==
    LET B == Blocks(a, b, alo, ahi, blo, bhi) IN
    IF B = {} THEN <<alo, blo, 0>>
    ELSE CHOOSE t \in B :
            \A u \in B :
                \/ t[3] > u[3]
                \/ t[3] = u[3] /\ t[1] < u[1]
                \/ t[3] = u[3] /\ t[1] = u[1] /\ t[2] <= u[2]

\* the sum of the sizes of SequenceMatcher.get_matching_blocks: the longest
\* block, then the same to its left and to its right
RECURSIVE matches(_, _, _, _, _, _)
matches(a, b, alo, ahi, blo, bhi) ==
    LET m == find_longest_match(a, b, alo, ahi, blo, bhi)
        i == m[1]
        j == m[2]
        k == m[3]
    IN  IF k = 0 THEN 0
        ELSE k
             + (IF alo < i /\ blo < j THEN matches(a, b, alo, i, blo, j) ELSE 0)
             + (IF i + k < ahi /\ j + k < bhi
                THEN matches(a, b, i + k, ahi, j + k, bhi) ELSE 0)

\* ratio() = 2.0 * matches / (len(a) + len(b)), 1.0 for two empty strings,
\* as the fraction <<numerator, denominator>>
string_similarity(a, b) ==
    IF Len(a) + Len(b) = 0 THEN <<1, 1>>
    ELSE <<2 * matches(a, b, 0, Len(a), 0, Len(b)), Len(a) + Len(b)>>

\* ratio >= 0.85
AtLeastThreshold(ratio) == 100 * ratio[1] >= 85 * ratio[2]

----------------------------------------------------------------------------
(* The automation names of the explored inputs *)

sync_v1 == <<"s", "y", "n", "c", "_", "v", "1">>
sync_v2 == <<"s", "y", "n", "c", "_", "v", "2">>
sync_02 == <<"s", "y", "n", "c", "_", "0", "2">>
payroll == <<"p", "a", "y", "r", "o", "l", "l">>
aaaaaba == <<"a", "a", "a", "a", "a", "b", "a">>
aabaaab == <<"a", "a", "b", "a", "a", "a", "b">>
aaaaaaa == <<"a", "a", "a", "a", "a", "a", "a">>

\* ratio(aaaaaba, aabaaab) = 12/14 but ratio(aabaaab, aaaaaba) = 8/14: the
\* ratio depends on the order of its arguments
NamePool ==
    {sync_v1, sync_v2, sync_02, payroll, aaaaaba, aabaaab, aaaaaaa}

\* number of rows of the uploaded file
MaxRows == 4

\* string_similarity(name, other) >= 0.85 for the names of the pool,
\* computed once
SimilarTo ==
    [n \in NamePool |->
        {o \in NamePool : AtLeastThreshold(string_similarity(n, o))}]

----------------------------------------------------------------------------
(* Suggested merges: lines 137-148 *)

Range(q) == {q[i] : i \in 1 .. Len(q)}

\* Series.dropna(): the present cells, in order
RECURSIVE dropna(_)
dropna(q) ==
    IF q = <<>> THEN <<>>
    ELSE IF isna(Head(q)) THEN dropna(Tail(q))
    ELSE <<Val(Head(q))>> \o dropna(Tail(q))

\* Series.unique(): the distinct values in order of first appearance
RECURSIVE unique(_)
unique(q) ==
    IF q = <<>> THEN <<>>
    ELSE LET front == unique(SubSeq(q, 1, Len(q) - 1))
             last == q[Len(q)]
         IN  IF last \in Range(front) THEN front ELSE Append(front, last)

\* line 143 with the names already seen left out of the scan
group_Unseen(name, all, done) ==
    {other \in Range(all) \ done : other \in SimilarTo[name] /\ other # name}

\* line 143: [other for other in names
\*            if string_similarity(name, other) >= 0.85 and other != name];
\* the scan runs over all names, seen or not
group(name, all, done) ==
    {other \in Range(all) : other \in SimilarTo[name] /\ other # name}

InitCluster ==
    /\ pc = "uploaded"
    /\ column \in UNION {[1 .. n -> {NA} \cup {{x} : x \in NamePool}] :
                            n \in 0 .. MaxRows}
    /\ names = <<>>
    /\ idx = 0
    /\ seen = {}
    /\ similar_groups = <<>>
    /\ seeds = <<>>
    \* the parts of the script not followed here stay idle
    /\ row = NoRow
    /\ SuggestedAction = NA
    /\ SuggestedAgain = NA
    /\ loaded = <<>>
    /\ df = <<>>
    /\ bu_filter = {}
    /\ bu_summary = <<>>

\* lines 137-139
CollectNames ==
    /\ pc = "uploaded"
    /\ similar_groups' = <<>>
    /\ seeds' = <<>>
    /\ seen' = {}
    /\ names' = unique(dropna(column))
    /\ idx' = 1
    /\ pc' = "loop"
    /\ UNCHANGED <<column, rowVars, aggVars>>

\* lines 141-142: a name already seen is passed over
SkipSeen ==
    /\ pc = "loop"
    /\ idx <= Len(names)
    /\ names[idx] \in seen
    /\ idx' = idx + 1
    /\ UNCHANGED <<pc, column, names, seen, similar_groups, seeds,
                   rowVars, aggVars>>

\* lines 143-148 for a name not yet seen
ScanName ==
    /\ pc = "loop"
    /\ idx <= Len(names)
    /\ names[idx] \notin seen
    /\ LET name == names[idx]
           g == group(name, names, seen)
           group_set == {name} \cup g
       IN  IF g # {} /\ ~(group_set \subseteq seen)
           THEN /\ similar_groups' = Append(similar_groups, group_set)
                /\ seeds' = Append(seeds, name)
                /\ seen' = seen \cup group_set
           ELSE UNCHANGED <<similar_groups, seeds, seen>>
    /\ idx' = idx + 1
    /\ UNCHANGED <<pc, column, names, rowVars, aggVars>>

\* line 150: the loop is over
EndLoop ==
    /\ pc = "loop"
    /\ idx > Len(names)
    /\ pc' = "grouped"
    /\ UNCHANGED <<clusterVars, rowVars, aggVars>>

NextCluster == CollectNames \/ SkipSeen \/ ScanName \/ EndLoop

----------------------------------------------------------------------------
(* Filter by business unit and summary by business unit: lines 66, 79-80,
   94-100.  The other three filters are left unselected. *)

BusinessUnits == {"Marketing", "Finance"}

\* number of rows of the uploaded file
MaxRecords == 3

Records ==
    [AutomationName : {NA, {sync_v1}, {payroll}},
     BusinessUnitName : {NA} \cup {{b} : b \in BusinessUnits},
     IsActive : BOOLEAN]

\* df[df['BusinessUnitName'].isin(selected)]
RECURSIVE isin(_, _)
isin(frame, selected) ==
    IF frame = <<>> THEN <<>>
    ELSE IF Head(frame).BusinessUnitName \subseteq selected
            /\ ~isna(Head(frame).BusinessUnitName)
    THEN <<Head(frame)>> \o isin(Tail(frame), selected)
    ELSE isin(Tail(frame), selected)

\* df['BusinessUnitName'].dropna().unique(), as a set
FilterOptions(frame) ==
    {Val(frame[i].BusinessUnitName) :
        i \in {j \in 1 .. Len(frame) : ~isna(frame[j].BusinessUnitName)}}

\* df.groupby('BusinessUnitName').agg(TotalAutomations=('AutomationName',
\* 'count'), ActiveAutomations=('IsActive', 'sum')): groupby leaves out the
\* rows whose key is missing, count counts the present cells of the column
groupby_agg(frame) ==
    [b \in FilterOptions(frame) |->
        LET members == {i \in 1 .. Len(frame) :
                            frame[i].BusinessUnitName = {b}}
        IN  [TotalAutomations |->
                Cardinality({i \in members : ~isna(frame[i].AutomationName)}),
             ActiveAutomations |->
                Cardinality({i \in members : frame[i].IsActive})]]

InitAgg ==
    /\ pc = "read"
    /\ loaded \in UNION {[1 .. n -> Records] : n \in 0 .. MaxRecords}
    /\ df = loaded
    /\ bu_filter = {}
    /\ bu_summary = <<>>
    \* the parts of the script not followed here stay idle
    /\ row = NoRow
    /\ SuggestedAction = NA
    /\ SuggestedAgain = NA
    /\ column = <<>>
    /\ names = <<>>
    /\ idx = 0
    /\ seen = {}
    /\ similar_groups = <<>>
    /\ seeds = <<>>

\* lines 66 and 79-80: the selection made in the sidebar is applied
ApplyFilter ==
    /\ pc = "read"
    /\ \E selected \in SUBSET FilterOptions(df) :
         /\ bu_filter' = selected
         /\ df' = IF selected # {} THEN isin(df, selected) ELSE df
    /\ pc' = "filtered"
    /\ UNCHANGED <<loaded, bu_summary, rowVars, clusterVars>>

\* lines 94-100
Summarize ==
    /\ pc = "filtered"
    /\ bu_summary' = groupby_agg(df)
    /\ pc' = "summarized"
    /\ UNCHANGED <<loaded, df, bu_filter, rowVars, clusterVars>>

NextAgg == ApplyFilter \/ Summarize

----------------------------------------------------------------------------
(* Specifications *)

\* one row through metrics and suggest_action
SpecRow == InitRow /\ [][NextRow]_vars

\* the name column through the suggested-merges loop
SpecCluster == InitCluster /\ [][NextCluster]_vars

\* a frame through the filter and the business-unit summary
SpecAgg == InitAgg /\ [][NextAgg]_vars

Init == InitRow \/ InitCluster \/ InitAgg

Next == NextRow \/ NextCluster \/ NextAgg

Spec == Init /\ [][Next]_vars

----------------------------------------------------------------------------
(* Claims about the suggested merges *)

Groups == Range(similar_groups)

Grouped == UNION Groups

\* the similarity of n to m, string_similarity(n, m), is >= 0.85
Similar(n, m) == m \in SimilarTo[n]

\* C7: the emitted groups are pairwise disjoint.
C7_GroupsDisjoint ==
    \A i, j \in 1 .. Len(similar_groups) :
        i # j => similar_groups[i] \cap similar_groups[j] = {}

\* C9: every emitted group holds its seed and at least one other name,
\* every other member was scored >= 0.85 by the seed's scan, a name whose
\* similarity to every other distinct name is below 0.85 is in no group, and
\* no names give no groups.
C9_GroupsAroundSeed ==
    /\ Len(seeds) = Len(similar_groups)
    /\ \A i \in 1 .. Len(similar_groups) :
         /\ seeds[i] \in similar_groups[i]
         /\ similar_groups[i] \ {seeds[i]} # {}
         /\ \A m \in similar_groups[i] \ {seeds[i]} :
              AtLeastThreshold(string_similarity(seeds[i], m))
    /\ \A n \in Range(names) :
         (\A m \in Range(names) \ {n} : ~Similar(n, m)) => n \notin Grouped
    /\ Range(names) = {} => similar_groups = <<>>

----------------------------------------------------------------------------
(* Claim about the summary *)

RECURSIVE SumTotals(_, _)
SumTotals(summary, keys) ==
    IF keys = {} THEN 0
    ELSE LET b == CHOOSE x \in keys : TRUE
         IN  summary[b].TotalAutomations + SumTotals(summary, keys \ {b})

\* C8: with no filter selected the TotalAutomations of the summary add up to
\* the number of input rows, rows without business unit or name included.
C8_TotalsSumToInput ==
    (pc = "summarized" /\ bu_filter = {})
    => SumTotals(bu_summary, DOMAIN bu_summary) = Len(loaded)

====
